---- MODULE Spec2Model ----
(***************************************************************************)
(* A model of firebase-rs: the Firebase endpoint (src/src/lib.rs), its     *)
(* URL validation (src/src/utils.rs), the request operations               *)
(* (src/src/request.rs, src/src/lib.rs) and the two transport backends     *)
(* (src/src/clients/).                                                     *)
(*                                                                         *)
(* Strings are sequences of lexemes.  A lexeme is one character ("/", ":", *)
(* "?", "&", "=") or an atomic run of characters that no operation of the  *)
(* program splits: a scheme ("https"), a host or path name ("h", "a"),     *)
(* the suffix ".json", a percent escape ("%26").                           *)
(***************************************************************************)
EXTENDS Integers, Sequences, FiniteSets

\* The fields of the model's records.  TLC orders the fields of a record by
\* the first occurrence of their names, so they are named here once, and every
\* record below writes its fields in this order.
RecordFields ==
    [T |-> 1, arg |-> 2, b |-> 3, body |-> 4, client |-> 5, data |-> 6,
     err |-> 7, firebase |-> 8, fn |-> 9, headers |-> 10, host |-> 11,
     key |-> 12, kind |-> 13, live |-> 14, method |-> 15, n |-> 16,
     ok |-> 17, op |-> 18, path |-> 19, payload |-> 20, query |-> 21,
     res |-> 22, s |-> 23, scheme |-> 24, shape |-> 25, some |-> 26,
     status |-> 27, str |-> 28, t |-> 29, tag |-> 30, ty |-> 31, uri |-> 32,
     url |-> 33, v |-> 34, value |-> 35]

\* ------------------------------------------------------------------ bounds

\* The longest chain of at() calls on one endpoint.
MaxNav == 2
\* The most add_param() calls on one endpoint.
MaxParams == 2
\* The most trailing slashes appended to a base URL string.
MaxSlashes == 2

\* ----------------------------------------------------------------- lexemes

Json == ".json"
Slash == "/"
Colon == ":"
QMark == "?"
Amp == "&"
Eq == "="

\* ----------------------------------------------------------------- strings

\* The concatenation of a sequence of strings.
RECURSIVE Concat(_)
Concat(ss) ==
    IF ss = <<>> THEN <<>> ELSE Head(ss) \o Concat(Tail(ss))

\* The index of the first occurrence of a lexeme of set cs in s, 0 if none.
RECURSIVE FindFrom(_, _, _)
FindFrom(s, cs, i) ==
    IF i > Len(s) THEN 0
    ELSE IF s[i] \in cs THEN i
    ELSE FindFrom(s, cs, i + 1)

Find(s, cs) == FindFrom(s, cs, 1)

\* str::split(sep): the pieces between the separators, empty pieces kept.
RECURSIVE Split(_, _)
Split(s, sep) ==
    LET i == Find(s, {sep}) IN
    IF i = 0 THEN <<s>>
    ELSE <<SubSeq(s, 1, i - 1)>> \o Split(SubSeq(s, i + 1, Len(s)), sep)

\* str::trim_end_matches(pat): every trailing occurrence of pat removed.
RECURSIVE TrimEndMatches(_, _)
TrimEndMatches(s, pat) ==
    IF Len(s) > 0 /\ s[Len(s)] = pat
    THEN TrimEndMatches(SubSeq(s, 1, Len(s) - 1), pat)
    ELSE s

\* The string of n slashes.
Slashes(n) == [i \in 1..n |-> Slash]

\* u32::to_string: the decimal digits of n.
Digit(d) == <<"0", "1", "2", "3", "4", "5", "6", "7", "8", "9">>[d + 1]

RECURSIVE Decimal(_)
Decimal(n) ==
    IF n < 10 THEN <<Digit(n)>> ELSE Decimal(n \div 10) \o <<Digit(n % 10)>>

\* ToString of the values add_param is given: a str verbatim, a u32 in
\* decimal, a bool as "true" or "false".
ValueToString(v) ==
    CASE v.t = "str" -> v.s
      [] v.t = "u32" -> Decimal(v.n)
      [] v.t = "bool" -> IF v.b THEN <<"true">> ELSE <<"false">>

\* --------------------------------------------------------------------- Url

NoQuery == [some |-> FALSE, v |-> <<>>]
SomeQuery(q) == [some |-> TRUE, v |-> q]

\* The schemes Url::parse knows in these strings; it lower-cases them.
SchemeOf(tok) ==
    CASE tok = "https" -> "https"
      [] tok = "HTTPS" -> "https"
      [] tok = "http" -> "http"
      [] OTHER -> ""

\* The slashes after a special scheme's colon, however many, are skipped.
RECURSIVE SkipSlashes(_)
SkipSlashes(s) ==
    IF Len(s) > 0 /\ s[1] = Slash THEN SkipSlashes(Tail(s)) ELSE s

ParseErr(e) == [err |-> e, ok |-> FALSE]
ParseOk(u) == [ok |-> TRUE, url |-> u]

\* str::parse::<Url>() of a string: scheme ":" slashes host path ["?" query].
\* A string with no scheme is a relative URL; slashes after a special
\* scheme's colon are skipped; an empty host is an error; an empty path is
\* "/".
UrlParse(s) ==
    IF Len(s) < 2 \/ SchemeOf(s[1]) = "" \/ s[2] # Colon
    THEN ParseErr("RelativeUrlWithoutBase")
    ELSE
      LET rest == SubSeq(s, 3, Len(s))
          auth == SkipSlashes(rest)
          e == Find(auth, {Slash, QMark})
          host == IF e = 0 THEN auth ELSE SubSeq(auth, 1, e - 1)
          tail == IF e = 0 THEN <<>> ELSE SubSeq(auth, e, Len(auth))
          q == Find(tail, {QMark})
          path == IF q = 0 THEN tail ELSE SubSeq(tail, 1, q - 1)
          query == IF q = 0 THEN NoQuery
                   ELSE SomeQuery(SubSeq(tail, q + 1, Len(tail)))
      IN IF host = <<>> THEN ParseErr("EmptyHost")
         ELSE ParseOk([host |-> host,
             path |-> IF path = <<>> THEN <<Slash>> ELSE path, query |-> query,
             scheme |-> SchemeOf(s[1])])

\* Url::to_string: the serialization.
UrlToString(u) ==
    <<u.scheme, Colon, Slash, Slash>> \o u.host \o u.path
      \o (IF u.query.some THEN <<QMark>> \o u.query.v ELSE <<>>)

\* Url::path_segments of a URL that can be a base: the path after its
\* leading slash, split at the slashes.
PathSegments(u) == Split(Tail(u.path), Slash)

\* Url::set_path on a special-scheme URL: one leading slash of the argument
\* is consumed, the path always starts with a slash; the query is kept.
SetPath(u, p) ==
    [u EXCEPT !.path = <<Slash>> \o
        (IF Len(p) > 0 /\ p[1] = Slash THEN Tail(p) ELSE p)]

\* Url::set_query(Some(q)): the query is replaced by q as written ("&" and
\* "=" are not escaped in a query).
SetQuery(u, q) == [u EXCEPT !.query = SomeQuery(q)]

\* form_urlencoded::byte_serialize: the lexemes that are not alphanumeric
\* are percent-escaped.
FormEncodeTok(c) ==
    CASE c = Amp -> "%26"
      [] c = Eq -> "%3D"
      [] c = Slash -> "%2F"
      [] c = QMark -> "%3F"
      [] OTHER -> c

FormEncode(s) == [i \in 1..Len(s) |-> FormEncodeTok(s[i])]

\* The percent-decoding of form_urlencoded::parse.
FormDecodeTok(c) ==
    CASE c = "%26" -> Amp
      [] c = "%3D" -> Eq
      [] c = "%2F" -> Slash
      [] c = "%3F" -> QMark
      [] OTHER -> c

FormDecode(s) == [i \in 1..Len(s) |-> FormDecodeTok(s[i])]

\* One "name=value" piece of a query string, decoded; a piece without "="
\* has an empty value.
ParsePair(piece) ==
    LET i == Find(piece, {Eq}) IN
    IF i = 0 THEN <<FormDecode(piece), <<>>>>
    ELSE <<FormDecode(SubSeq(piece, 1, i - 1)),
           FormDecode(SubSeq(piece, i + 1, Len(piece)))>>

\* Url::query_pairs: the query split at "&", empty pieces skipped.
QueryPairs(u) ==
    IF ~u.query.some THEN <<>>
    ELSE LET pieces == Split(u.query.v, Amp)
             keep == SelectSeq(pieces, LAMBDA p : p # <<>>)
         IN [i \in 1..Len(keep) |-> ParsePair(keep[i])]

\* Url::query_pairs_mut().append_pair(k, v): a missing query becomes the
\* empty one, "&" is written unless the query is empty, then the escaped
\* name, "=", the escaped value.
AppendPair(u, k, v) ==
    LET q == u.query.v IN
    [u EXCEPT !.query = SomeQuery(
        q \o (IF Len(q) > 0 THEN <<Amp>> ELSE <<>>)
          \o FormEncode(k) \o <<Eq>> \o FormEncode(v))]

\* ---------------------------------------------------- construction (utils)

NullUrl == [host |-> <<>>, path |-> <<>>, query |-> NoQuery, scheme |-> ""]

\* UrlParseResult<Url>: Ok(url), Err(NotHttps) or Err(Parser(e)).
UriOk(u) == [err |-> "", tag |-> "Ok", url |-> u]
UriErr(tag, e) == [err |-> e, tag |-> tag, url |-> NullUrl]

\* check_uri as it would be without the trim of the trailing slashes.
CheckUriNoTrim(uri) ==
    LET parsed == UrlParse(uri) IN
    IF ~parsed.ok THEN UriErr("Parser", parsed.err)
    ELSE IF parsed.url.scheme # "https" THEN UriErr("NotHttps", "")
    ELSE UriOk(parsed.url)

\* check_uri as it would be without the scheme test.
CheckUriAnyScheme(uri) ==
    LET parsed == UrlParse(TrimEndMatches(uri, Slash)) IN
    IF ~parsed.ok THEN UriErr("Parser", parsed.err) ELSE UriOk(parsed.url)

\* check_uri: the trailing slashes are trimmed, the rest is parsed, and a
\* scheme other than https is refused.
check_uri(uri) ==
    LET parsed == UrlParse(TrimEndMatches(uri, Slash)) IN
    IF ~parsed.ok THEN UriErr("Parser", parsed.err)
    ELSE IF parsed.url.scheme # "https" THEN UriErr("NotHttps", "")
    ELSE UriOk(parsed.url)

\* --------------------------------------------------------- Firebase (lib)

\* constants::AUTH, the name of the query parameter of Firebase::auth.
AUTH == <<"auth">>

\* The one transport a constructor makes: Client::default().
DefaultClient == "client"

NoFirebase == [client |-> "", live |-> FALSE, uri |-> NullUrl]
FirebaseOf(u) == [client |-> DefaultClient, live |-> TRUE, uri |-> u]

\* Firebase::new: the checked URL, or check_uri's error.
FirebaseNew(uri) == check_uri(uri)

\* Firebase::auth as it would be if it parsed the string itself and left out
\* check_uri's scheme test.
FirebaseAuthUnchecked(uri, auth_key) ==
    LET parsed == UrlParse(TrimEndMatches(uri, Slash)) IN
    IF parsed.ok THEN UriOk(SetQuery(parsed.url, AUTH \o <<Eq>> \o auth_key))
    ELSE UriErr("Parser", parsed.err)

\* Firebase::auth: the checked URL with its query set to "auth=<key>", the
\* key written as given.
FirebaseAuth(uri, auth_key) ==
    LET r == check_uri(uri) IN
    IF r.tag = "Ok" THEN UriOk(SetQuery(r.url, AUTH \o <<Eq>> \o auth_key))
    ELSE r

\* The String collected in at(): every segment of the path, its trailing
\* ".json" trimmed, followed by a slash.
RePath(u) ==
    LET segs == PathSegments(u) IN
    Concat([i \in 1..Len(segs) |-> TrimEndMatches(segs[i], Json) \o <<Slash>>])

\* at() as it would be if it re-joined the segments untrimmed.
AtUriNoTrim(u, path) ==
    LET segs == PathSegments(u)
        re_path == Concat([i \in 1..Len(segs) |-> segs[i] \o <<Slash>>])
    IN SetPath(u, TrimEndMatches(re_path \o path, Json) \o <<Json>>)

\* at() as it would be on a copy: the receiver's own URL is left as it was.
AtUriOnCopy(u, path) == u

\* Firebase::at and WithQueries::at on the URL of the receiver: the path
\* becomes the re-joined segments, then the argument, with any trailing
\* ".json" trimmed and one ".json" appended.
AtUri(u, path) ==
    LET new_path == RePath(u) \o path IN
    SetPath(u, TrimEndMatches(new_path, Json) \o <<Json>>)

\* add_param as it would be if it set the query instead of appending.
AddParamUriOverwrite(u, key, value) ==
    SetQuery(u, FormEncode(key) \o <<Eq>> \o FormEncode(ValueToString(value)))

\* Paramable::add_param for Firebase and WithParams::add_param on the URL of
\* the receiver: one pair (key, value.to_string()) appended to the query.
AddParamUri(u, key, value) == AppendPair(u, key, ValueToString(value))

\* -------------------------------------------------------------------- JSON

\* A serde_json::Value, flattened: <<"null">>, <<"num", digits>>,
\* <<"str", s>>, <<"obj", field, kind, content>>.
NullValue == <<"null">>

\* Option<Value>.
NoBody == [some |-> FALSE, v |-> NullValue]
SomeBody(v) == [some |-> TRUE, v |-> v]

\* The callers' typed values: a User{name: String} and a u32.
UserData(name) == [n |-> 0, s |-> name, ty |-> "User"]
NumData(n) == [n |-> n, s |-> "", ty |-> "u32"]

\* serde_json::to_value of a typed value.
ToValue(d) ==
    IF d.ty = "User" THEN <<"obj", "name", "str", d.s>>
    ELSE <<"num">> \o Decimal(d.n)

\* Whether a JSON value deserializes as type T.
Decodes(T, v) ==
    CASE T = "Value" -> TRUE
      [] T = "User" -> Len(v) = 4 /\ v[1] = "obj" /\ v[2] = "name" /\ v[3] = "str"
      [] T = "String" -> v[1] = "str"
      [] OTHER -> FALSE

\* ------------------------------------------------------------- the request

NoRequest == [body |-> NoBody, method |-> "", uri |-> <<>>]

\* make_request and the builder of Firebase::request: the method, the URL
\* serialized and parsed as an http::Uri, the optional body.
make_request(uri, method, data) ==
    [body |-> data, method |-> method, uri |-> UrlToString(uri)]

\* An operation as it would be if it all dispatched GET without a body.
OpRequestAllGet(op, data) == [body |-> NoBody, method |-> "GET"]

\* The method and body each request operation hands to request().
OpRequest(op, data) ==
    CASE op = "get" -> [body |-> NoBody, method |-> "GET"]
      [] op = "get_as_string" -> [body |-> NoBody, method |-> "GET"]
      [] op = "set" -> [body |-> SomeBody(ToValue(data)), method |-> "POST"]
      [] op = "update" -> [body |-> SomeBody(ToValue(data)), method |-> "PATCH"]
      [] op = "delete" -> [body |-> NoBody, method |-> "DELETE"]

\* The operations that go through request_generic.
IsGeneric(op) == op = "get"

\* Result<Response<Resp>> and Result<T>: what send, request and the
\* operations return.  shape is "envelope" for a Response (status, headers,
\* body) and "body" for a bare decoded body.
NoResult ==
    [body |-> NullValue, err |-> "", headers |-> <<>>, kind |-> "none",
        shape |-> "", status |-> 0, ty |-> ""]
OkEnvelope(status, headers, ty, body) ==
    [body |-> body, err |-> "", headers |-> headers, kind |-> "Ok",
        shape |-> "envelope", status |-> status, ty |-> ty]
OkBody(ty, body) ==
    [body |-> body, err |-> "", headers |-> <<>>, kind |-> "Ok",
        shape |-> "body", status |-> 0, ty |-> ty]
ErrResult(e) ==
    [body |-> NullValue, err |-> e, headers |-> <<>>, kind |-> "Err",
        shape |-> "", status |-> 0, ty |-> ""]

\* request_generic: the body of an Ok response, the error of an Err.
RequestGeneric(r) ==
    IF r.kind = "Ok" THEN OkBody(r.ty, r.body) ELSE ErrResult(r.err)

\* ------------------------------------------------------------ the backends

Backends == {"reqwest", "http_req_wasi"}

\* The methods http_req_wasi's send maps; any other panics.
WasiMethods == {"GET", "POST", "PUT", "DELETE", "HEAD", "OPTIONS"}

\* Whether the backend's send maps the method (reqwest takes any).
MethodMapped(b, method) == b = "reqwest" \/ method \in WasiMethods

\* The payload the backend puts on the wire: reqwest writes the JSON text of
\* the Option (of None: null), http_req_wasi writes none.
WirePayload(b, body) ==
    IF b = "reqwest" THEN SomeBody(body.v) ELSE NoBody

NoWire == [method |-> "", payload |-> NoBody, url |-> <<>>]

\* What the backend does with a response: the payload decoded as T inside an
\* envelope, or the panic of the unwrap() on the decode error.
DecodeResponse(T, resp) ==
    IF Decodes(T, resp.payload)
    THEN OkEnvelope(resp.status, resp.headers, T, resp.payload)
    ELSE NoResult

\* ------------------------------------------------------------------ inputs

HostOnly == <<"https", Colon, Slash, Slash, "h">>

\* The URL strings the endpoint of a behaviour is constructed from: a bare
\* host, a path with a ".json" segment, a path with an empty first segment,
\* a scheme that is not https.
RootInputs ==
    { HostOnly,
      HostOnly \o <<Slash, "r", Json, Slash, "s">>,
      HostOnly \o <<Slash, Slash, "r">>,
      <<"http", Colon, Slash, Slash, "h">> }

\* The auth keys: a plain token, and one holding "&" and "=".
AuthKeys == { <<"k">>, <<"k", Amp, "x", Eq, "y">> }

\* The arguments of at(): a name, a name that ends with ".json", and the
\* bare suffix.
PathArgs == { <<"a">>, <<"b", Json>>, <<Json>> }

\* The arguments of add_param(), each with the string form its value is
\* expected to have in the query.
Params ==
    { [key |-> <<"orderBy">>, str |-> <<"k", Amp, "x", Eq, "y">>,
        value |-> [b |-> FALSE, n |-> 0, s |-> <<"k", Amp, "x", Eq, "y">>,
        t |-> "str"]],
      [key |-> <<"limitToFirst">>, str |-> <<"1", "2">>,
          value |-> [b |-> FALSE, n |-> 12, s |-> <<>>, t |-> "u32"]],
      [key |-> <<"shallow">>, str |-> <<"true">>, value |-> [b |-> TRUE,
          n |-> 0, s |-> <<>>, t |-> "bool"]] }

\* The request operations with the caller's argument and target type.
Calls ==
    { [T |-> "User", data |-> NumData(0), op |-> "get"],
      [T |-> "Value", data |-> NumData(0), op |-> "get"],
      [T |-> "String", data |-> NumData(0), op |-> "get_as_string"],
      [T |-> "Value", data |-> UserData("a"), op |-> "set"],
      [T |-> "Value", data |-> UserData("a"), op |-> "update"],
      [T |-> "Value", data |-> NumData(0), op |-> "delete"] }

NoCall == [T |-> "", data |-> NumData(0), op |-> ""]

\* What the network answers: a failure of the backend, or a response.
NetErrors == { "timeout", "refused" }
Responses ==
    { [headers |-> <<"etag">>, payload |-> <<"obj", "name", "str", "a">>,
        status |-> 200],
      [headers |-> <<"etag">>, payload |-> <<"obj", "name", "num", "1">>,
          status |-> 200],
      [headers |-> <<>>, payload |-> <<"str", "x">>, status |-> 401] }

\* The base URL strings of the constructor harness: scheme or none, host or
\* none, a path, a query or none.
BaseInputs ==
    { pre \o host \o path \o query :
        pre \in { <<"https", Colon, Slash, Slash>>, <<"HTTPS", Colon, Slash, Slash>>,
                  <<"http", Colon, Slash, Slash>>, <<>> },
        host \in { <<"h">>, <<>> },
        path \in { <<>>, <<Slash, "a">>, <<Slash, "a", Slash, "b", Json>>,
                   <<Slash, Slash, "a">> },
        query \in { <<>>, <<QMark, "x", Eq, "1">> } }

\* ------------------------------------------------------------------- state

VARIABLES
    backend,   \* the transport backend the crate is built with
    ctor,      \* the constructor call: function, arguments, result tag
    fb,        \* the Firebase value the caller holds
    root,      \* the URL of fb as constructed
    navs,      \* the arguments of the at() calls on fb, in order
    added,     \* the arguments of the add_param() calls on fb, in order
    pc,        \* where the caller is
    call,      \* the request operation in progress or last returned
    req,       \* the http::Request handed to Client::send
    sends,     \* how often Client::send was entered in this operation
    wire,      \* what the backend put on the wire
    sendRes,   \* what Client::send returned
    ret,       \* what the operation returned to the caller
    sender,    \* the client whose send the operation entered
    wp,        \* the WithParams handle the caller holds
    wq,        \* the WithQueries handle the caller holds
    finished,  \* the Firebase the last finish() returned
    hops,      \* the operations on the handles so far, in order
    base,      \* harness: the base URL string
    made,      \* harness: the result of new(base + j slashes)
    amade      \* harness: the key and result of auth(base + j slashes, key)

vars ==
    <<backend, ctor, fb, root, navs, added, pc, call, req, sends, wire,
      sendRes, ret, sender, wp, wq, finished, hops, base, made, amade>>

opVars == <<call, req, sends, wire, sendRes, ret, sender>>
handleVars == <<wp, wq, finished, hops>>
harnessVars == <<base, made, amade>>

NoCtor == [arg |-> <<>>, fn |-> "", key |-> <<>>, tag |-> ""]
NotMade == [err |-> "", tag |-> "", url |-> NullUrl]
NotAuthed == [key |-> <<>>, res |-> NotMade]
NoHandle == [firebase |-> "", live |-> FALSE, uri |-> NullUrl]

InitEndpoint ==
    /\ backend \in Backends
    /\ ctor = NoCtor
    /\ fb = NoFirebase
    /\ root = NullUrl
    /\ navs = <<>>
    /\ added = <<>>
    /\ pc = "start"
    /\ call = NoCall
    /\ req = NoRequest
    /\ sends = 0
    /\ wire = NoWire
    /\ sendRes = NoResult
    /\ ret = NoResult
    /\ sender = ""
    /\ wp = NoHandle
    /\ wq = NoHandle
    /\ finished = ""
    /\ hops = <<>>

InitHarness ==
    /\ made = [j \in 0..MaxSlashes |-> NotMade]
    /\ amade = [j \in 0..MaxSlashes |-> NotAuthed]

Init ==
    /\ InitEndpoint
    /\ InitHarness
    /\ base = <<>>

ResetOp ==
    /\ call' = NoCall
    /\ req' = NoRequest
    /\ sends' = 0
    /\ wire' = NoWire
    /\ sendRes' = NoResult
    /\ ret' = NoResult
    /\ sender' = ""

\* ----------------------------------------------------------------- actions

\* The caller's handling of a constructor's result: the Firebase on Ok.
Constructed(fn, uri, key, r) ==
    /\ pc = "start"
    /\ ctor' = [arg |-> uri, fn |-> fn, key |-> key, tag |-> r.tag]
    /\ fb' = IF r.tag = "Ok" THEN FirebaseOf(r.url) ELSE NoFirebase
    /\ root' = r.url
    /\ pc' = IF r.tag = "Ok" THEN "idle" ELSE "failed"
    /\ UNCHANGED <<backend, navs, added>>
    /\ UNCHANGED opVars
    /\ UNCHANGED harnessVars
    /\ UNCHANGED handleVars

\* Firebase::new(uri).
New(uri) == Constructed("new", uri, <<>>, FirebaseNew(uri))

\* Firebase::auth(uri, auth_key).
Auth(uri, auth_key) == Constructed("auth", uri, auth_key, FirebaseAuth(uri, auth_key))

\* fb.at(path): the URL of fb itself is rewritten (&mut self).
At(path) ==
    /\ pc = "idle"
    /\ Len(navs) < MaxNav
    /\ fb' = [fb EXCEPT !.uri = AtUri(fb.uri, path)]
    /\ navs' = Append(navs, path)
    /\ ResetOp
    /\ UNCHANGED <<backend, ctor, root, added, pc>>
    /\ UNCHANGED harnessVars
    /\ UNCHANGED handleVars

\* fb.add_param(key, value): the URL of fb itself is rewritten (&mut self).
AddParam(p) ==
    /\ pc = "idle"
    /\ Len(added) < MaxParams
    /\ fb' = [fb EXCEPT !.uri = AddParamUri(fb.uri, p.key, p.value)]
    /\ added' = Append(added, p)
    /\ ResetOp
    /\ UNCHANGED <<backend, ctor, root, navs, pc>>
    /\ UNCHANGED harnessVars
    /\ UNCHANGED handleVars

\* get / get_as_string / set / update / delete up to the call of
\* Client::send: the argument is serialized and the request is built from
\* the URL of fb.
Request(c) ==
    /\ pc = "idle"
    /\ call' = c
    /\ req' = LET r == OpRequest(c.op, c.data)
              IN make_request(fb.uri, r.method, r.body)
    /\ sends' = 0
    /\ wire' = NoWire
    /\ sendRes' = NoResult
    /\ ret' = NoResult
    /\ sender' = fb.client
    /\ pc' = "send"
    /\ UNCHANGED <<backend, ctor, fb, root, navs, added>>
    /\ UNCHANGED harnessVars
    /\ UNCHANGED handleVars

\* Client::send up to the await of the backend's send: the method is mapped
\* (http_req_wasi panics on one it does not know) and the request goes out.
ClientSend ==
    /\ pc = "send"
    /\ sends' = sends + 1
    /\ wire' = IF MethodMapped(backend, req.method)
               THEN [method |-> req.method,
                   payload |-> WirePayload(backend, req.body),
                   url |-> req.uri]
               ELSE NoWire
    /\ pc' = IF MethodMapped(backend, req.method) THEN "await"
             ELSE "panic_unsupported_method"
    /\ UNCHANGED <<backend, ctor, fb, root, navs, added, call, req, sender,
                   sendRes, ret>>
    /\ UNCHANGED harnessVars
    /\ UNCHANGED handleVars

\* Client::send as it would be if it sent again after a failure.
NetFailRetry(e) ==
    /\ pc = "await"
    /\ sendRes' = ErrResult(e)
    /\ pc' = "send"
    /\ UNCHANGED <<backend, ctor, fb, root, navs, added, call, req, sender,
                   sends, wire, ret>>
    /\ UNCHANGED harnessVars
    /\ UNCHANGED handleVars

\* The backend's send fails: Client::send returns the error as it is.
NetFail(e) ==
    /\ pc = "await"
    /\ sendRes' = ErrResult(e)
    /\ pc' = "ret"
    /\ UNCHANGED <<backend, ctor, fb, root, navs, added, call, req, sender,
                   sends, wire, ret>>
    /\ UNCHANGED harnessVars
    /\ UNCHANGED handleVars

\* The backend's send succeeds: the payload is decoded as the caller's type,
\* and the unwrap() of a decode error panics.
NetRespond(resp) ==
    /\ pc = "await"
    /\ sendRes' = DecodeResponse(call.T, resp)
    /\ pc' = IF Decodes(call.T, resp.payload) THEN "ret"
             ELSE "panic_decode_unwrap"
    /\ UNCHANGED <<backend, ctor, fb, root, navs, added, call, req, sender,
                   sends, wire, ret>>
    /\ UNCHANGED harnessVars
    /\ UNCHANGED handleVars

\* The operation returns: request() hands on what send returned, and
\* request_generic keeps the body of an Ok.
Return ==
    /\ pc = "ret"
    /\ ret' = IF IsGeneric(call.op) THEN RequestGeneric(sendRes) ELSE sendRes
    /\ pc' = "idle"
    /\ UNCHANGED <<backend, ctor, fb, root, navs, added, call, req, sender,
                   sends, wire, sendRes>>
    /\ UNCHANGED harnessVars
    /\ UNCHANGED handleVars

Next ==
    \/ \E uri \in RootInputs : New(uri)
    \/ \E uri \in RootInputs, k \in AuthKeys : Auth(uri, k)
    \/ \E path \in PathArgs : At(path)
    \/ \E p \in Params : AddParam(p)
    \/ \E c \in Calls : Request(c)
    \/ ClientSend
    \/ \E e \in NetErrors : NetFail(e)
    \/ \E resp \in Responses : NetRespond(resp)
    \/ Return

Spec == Init /\ [][Next]_vars

\* ------------------------------------------------- the constructor harness

\* A test such as tests::simple: one base URL string, constructed from with
\* 0..MaxSlashes slashes appended.
InitNew ==
    /\ InitEndpoint
    /\ InitHarness
    /\ base \in BaseInputs

\* Firebase::new(base + j slashes).
NewWithSlashes(j) ==
    /\ made[j] = NotMade
    /\ made' = [made EXCEPT ![j] = FirebaseNew(base \o Slashes(j))]
    /\ UNCHANGED <<backend, ctor, fb, root, navs, added, pc, base, amade>>
    /\ UNCHANGED opVars
    /\ UNCHANGED handleVars

\* Firebase::auth(base + j slashes, key).
AuthWithSlashes(j, k) ==
    /\ amade[j] = NotAuthed
    /\ amade' = [amade EXCEPT ![j] =
                   [key |-> k, res |-> FirebaseAuth(base \o Slashes(j), k)]]
    /\ UNCHANGED <<backend, ctor, fb, root, navs, added, pc, base, made>>
    /\ UNCHANGED opVars
    /\ UNCHANGED handleVars

NextNew ==
    \/ \E j \in 0..MaxSlashes : NewWithSlashes(j)
    \/ \E j \in 0..MaxSlashes, k \in AuthKeys : AuthWithSlashes(j, k)

SpecNew == InitNew /\ [][NextNew]_vars

\* ------------------------------------------------------ the derived handles

\* The most at() and parameter calls on the handles of one behaviour.
MaxHandleOps == 3

\* The Firebase the caller holds, as the target of a handle's reference.
FbAddr == "fb"

\* The Firebase a handle's reference leads to.
Deref(a) == IF a = FbAddr THEN fb ELSE NoFirebase

\* A WithParams or WithQueries of a Firebase: a reference to that Firebase
\* and a copy of its URL.
HandleOf(a) == [firebase |-> a, live |-> TRUE, uri |-> Deref(a).uri]

\* A derivation as it would be if it took the URL of the Firebase instead
\* of the URL of the handle it derives from.
DeriveFromFirebaseUrl(src) == HandleOf(src.firebase)

\* WithParams::with_queries and WithQueries::with_params: the reference of
\* the source handle and a clone of its URL.
Derive(src) == [firebase |-> src.firebase, live |-> TRUE, uri |-> src.uri]

\* What every step on a handle leaves alone: the Firebase, the endpoint's
\* history and the request in progress are reset as after any builder call.
HandleStep(op) ==
    /\ pc = "idle"
    /\ hops' = Append(hops, op)
    /\ ResetOp
    /\ UNCHANGED <<backend, ctor, fb, root, navs, added, pc>>
    /\ UNCHANGED harnessVars

\* fb.with_params(): a WithParams of fb.
FirebaseWithParams ==
    /\ fb.live
    /\ Len(hops) < MaxHandleOps
    /\ wp' = HandleOf(FbAddr)
    /\ HandleStep(<<"with_params", "fb">>)
    /\ UNCHANGED <<wq, finished>>

\* fb.with_queries(): a WithQueries of fb.
FirebaseWithQueries ==
    /\ fb.live
    /\ Len(hops) < MaxHandleOps
    /\ wq' = HandleOf(FbAddr)
    /\ HandleStep(<<"with_queries", "fb">>)
    /\ UNCHANGED <<wp, finished>>

\* wq.with_params(): a WithParams from the WithQueries (&self).
WithParamsOfQueries ==
    /\ wq.live
    /\ Len(hops) < MaxHandleOps
    /\ wp' = Derive(wq)
    /\ HandleStep(<<"with_params", "wq">>)
    /\ UNCHANGED <<wq, finished>>

\* wp.with_queries(): a WithQueries from the WithParams (&self).
WithQueriesOfParams ==
    /\ wp.live
    /\ Len(hops) < MaxHandleOps
    /\ wq' = Derive(wp)
    /\ HandleStep(<<"with_queries", "wp">>)
    /\ UNCHANGED <<wp, finished>>

\* wq.at(path): the URL of the handle is rewritten (&mut self).
QueriesAt(path) ==
    /\ wq.live
    /\ Len(hops) < MaxHandleOps
    /\ wq' = [wq EXCEPT !.uri = AtUri(wq.uri, path)]
    /\ HandleStep(<<"at", "wq">>)
    /\ UNCHANGED <<wp, finished>>

\* wp.order_by(key), wp.limit_to_first(count), wp.shallow(flag): the pair
\* is appended to the URL of the handle (&mut self).
ParamsAdd(p) ==
    /\ wp.live
    /\ Len(hops) < MaxHandleOps
    /\ wp' = [wp EXCEPT !.uri = AddParamUri(wp.uri, p.key, p.value)]
    /\ HandleStep(<<"add_param", "wp">>)
    /\ UNCHANGED <<wq, finished>>

\* wp.finish(): the handle is consumed, its Firebase reference returned.
ParamsFinish ==
    /\ wp.live
    /\ Len(hops) < MaxHandleOps
    /\ finished' = wp.firebase
    /\ wp' = NoHandle
    /\ HandleStep(<<"finish", "wp">>)
    /\ UNCHANGED wq

\* wq.finish(): the handle is consumed, its Firebase reference returned.
QueriesFinish ==
    /\ wq.live
    /\ Len(hops) < MaxHandleOps
    /\ finished' = wq.firebase
    /\ wq' = NoHandle
    /\ HandleStep(<<"finish", "wq">>)
    /\ UNCHANGED wp

\* A request operation on a handle up to the call of Client::send: the
\* request is built from the handle's URL and goes to the client of the
\* Firebase the handle refers to.
HandleRequest(h, c) ==
    /\ pc = "idle"
    /\ h.live
    /\ call' = c
    /\ req' = LET r == OpRequest(c.op, c.data)
              IN make_request(h.uri, r.method, r.body)
    /\ sends' = 0
    /\ wire' = NoWire
    /\ sendRes' = NoResult
    /\ ret' = NoResult
    /\ sender' = Deref(h.firebase).client
    /\ pc' = "send"
    /\ UNCHANGED <<backend, ctor, fb, root, navs, added>>
    /\ UNCHANGED harnessVars
    /\ UNCHANGED handleVars

ParamsRequest(c) == HandleRequest(wp, c)
QueriesRequest(c) == HandleRequest(wq, c)

\* The calls made on the handles.
HandleCalls ==
    { [T |-> "Value", data |-> NumData(0), op |-> "get"],
      [T |-> "Value", data |-> UserData("a"), op |-> "set"] }

\* A caller that constructs a Firebase and then works through handles.
NextHandles ==
    \/ \E uri \in RootInputs : New(uri)
    \/ \E uri \in RootInputs, k \in AuthKeys : Auth(uri, k)
    \/ FirebaseWithParams
    \/ FirebaseWithQueries
    \/ WithParamsOfQueries
    \/ WithQueriesOfParams
    \/ \E path \in PathArgs : QueriesAt(path)
    \/ \E p \in Params : ParamsAdd(p)
    \/ ParamsFinish
    \/ QueriesFinish
    \/ \E c \in HandleCalls : ParamsRequest(c)
    \/ \E c \in HandleCalls : QueriesRequest(c)
    \/ ClientSend
    \/ \E e \in NetErrors : NetFail(e)
    \/ \E resp \in Responses : NetRespond(resp)
    \/ Return

SpecHandles == Init /\ [][NextHandles]_vars

\* ------------------------------------------------------------------ claims

\* A path segment without its trailing ".json".
Strip(seg) == TrimEndMatches(seg, Json)

StripAll(segs) == [i \in 1..Len(segs) |-> Strip(segs[i])]

\* The path segments of a URL, none for the path "/".
SegmentsOf(u) == IF u.path = <<Slash>> THEN <<>> ELSE PathSegments(u)

\* Segments re-joined as the claims describe: all stripped, ".json" once, at
\* the end of the last.
Canonical(segs) ==
    [i \in 1..Len(segs) |->
        IF i < Len(segs) THEN Strip(segs[i]) ELSE Strip(segs[i]) \o <<Json>>]

\* A sequence without its first element when that one is empty.
DropEmptyFirst(segs) ==
    IF Len(segs) > 0 /\ segs[1] = <<>> THEN Tail(segs) ELSE segs

EndsWithJson(seg) == Len(seg) > 0 /\ seg[Len(seg)] = Json

C3_SentUrlEndsWithJson ==
    req # NoRequest =>
        LET segs == PathSegments(UrlParse(req.uri).url)
        IN EndsWithJson(segs[Len(segs)])

\* C4: new(s) is Err(Parser) when s does not parse as an absolute URL,
\* Err(NotHttps) when s parses with a scheme other than https, and Ok when s
\* parses with the scheme https; it is never anything else.
C4_NewClassifies ==
    \A j \in 0..MaxSlashes :
        made[j] # NotMade =>
            LET parsed == UrlParse(base \o Slashes(j)) IN
            /\ made[j].tag \in {"Ok", "NotHttps", "Parser"}
            /\ ~parsed.ok => made[j].tag = "Parser"
            /\ (parsed.ok /\ parsed.url.scheme # "https") => made[j].tag = "NotHttps"
            /\ (parsed.ok /\ parsed.url.scheme = "https") =>
                 (made[j].tag = "Ok" /\ made[j].url.scheme = "https")

C4_Witness ==
    /\ base = <<"http", Colon, Slash, Slash, "h", Slash, "a">>
    /\ made[0].tag = "NotHttps"
    /\ made[1].tag = "NotHttps"

\* C5: new(u), new(u + "/") and new(u + "//") all fail or all succeed with
\* the same stored URL, and for a host-only https u that URL is u followed
\* by one "/".
C5_TrailingSlashes ==
    /\ \A i, j \in 0..MaxSlashes :
          (made[i] # NotMade /\ made[j] # NotMade) =>
              (made[i].tag = made[j].tag /\ made[i].url = made[j].url)
    /\ \A j \in 0..MaxSlashes :
          (base = HostOnly /\ made[j] # NotMade) =>
              (made[j].tag = "Ok" /\ UrlToString(made[j].url) = HostOnly \o <<Slash>>)

C5_Witness ==
    /\ base = HostOnly \o <<Slash, "a">>
    /\ made[0].tag = "Ok"
    /\ made[1].tag = "Ok"
    /\ made[2].tag = "Ok"
    /\ UrlToString(made[2].url) = HostOnly \o <<Slash, "a">>

\* The pairs the add_param calls are expected to have added.
AddedPairs == [i \in 1..Len(added) |-> <<added[i].key, added[i].str>>]

\* C6: after any add_param calls the query holds the pairs of the
\* constructed URL followed by one pair (key, string form of the value) per
\* call, in call order, a repeated key kept each time.
C6_ParamsAppended ==
    fb.live => QueryPairs(fb.uri) = QueryPairs(root) \o AddedPairs

C6_Witness ==
    /\ fb.live
    /\ ctor.fn = "auth"
    /\ ctor.key = <<"k">>
    /\ Len(added) = 2
    /\ added[1] = added[2]
    /\ added[1].key = <<"orderBy">>
    /\ QueryPairs(fb.uri) =
         << <<AUTH, <<"k">>>>,
            <<<<"orderBy">>, <<"k", Amp, "x", Eq, "y">>>>,
            <<<<"orderBy">>, <<"k", Amp, "x", Eq, "y">>>> >>

\* C7: the URL of auth(u, k) holds exactly one query pair, ("auth", k).
C7_AuthExactlyOnePair ==
    \A j \in 0..MaxSlashes :
        amade[j].res.tag = "Ok" =>
            QueryPairs(amade[j].res.url) = << <<AUTH, amade[j].key>> >>

\* The JSON encoding the claims expect of the callers' values.
ExpectedJson(d) ==
    IF d.ty = "User" THEN <<"obj", "name", "str", d.s>> ELSE <<"num", "0">>

ExpectedMethod(op) ==
    CASE op \in {"get", "get_as_string"} -> "GET"
      [] op = "set" -> "POST"
      [] op = "update" -> "PATCH"
      [] op = "delete" -> "DELETE"

\* C8: the request handed to Client::send has the operation's method, the
\* JSON encoding of the argument as its body for set and update and no body
\* otherwise, and the endpoint's URL; get returns the decoded body alone,
\* set, update and delete the envelope of status, headers and body.
C8_MethodBodyAndShape ==
    /\ req # NoRequest =>
          /\ req.method = ExpectedMethod(call.op)
          /\ req.uri = UrlToString(fb.uri)
          /\ req.body = IF call.op \in {"set", "update"}
                        THEN SomeBody(ExpectedJson(call.data)) ELSE NoBody
    /\ ret.kind = "Ok" =>
          /\ ret.body = sendRes.body
          /\ call.op = "get" => (ret.shape = "body" /\ ret.status = 0 /\ ret.headers = <<>>)
          /\ call.op \in {"set", "update", "delete"} =>
               /\ ret.shape = "envelope"
               /\ ret.status = sendRes.status
               /\ ret.headers = sendRes.headers

C8_Witness ==
    /\ call.op = "update"
    /\ req.method = "PATCH"
    /\ req.body = SomeBody(<<"obj", "name", "str", "a">>)
    /\ ret.kind = "Ok"
    /\ ret.shape = "envelope"
    /\ ret.status = 200

\* C9: a response whose payload does not decode as the caller's type makes
\* the operation return a failure; it raises no fatal fault.
C9_DecodeFailureReturned ==
    pc # "panic_decode_unwrap"

\* C10: an operation enters Client::send once, never again after a failure;
\* a failure of the backend is returned as it is; and get returns an error
\* exactly when its request did.
C10_OneSendErrorAsIs ==
    /\ sends <= 1
    /\ pc \in {"await", "ret"} => sends = 1
    /\ ret # NoResult =>
          /\ sends = 1
          /\ ret.kind = "Err" <=> sendRes.kind = "Err"
          /\ sendRes.kind = "Err" => ret = sendRes

C10_Witness ==
    /\ call.op = "get"
    /\ pc = "idle"
    /\ sends = 1
    /\ sendRes = ErrResult("timeout")
    /\ ret = ErrResult("timeout")

\* The methods the transport contract names.
ClosedMethods == {"GET", "POST", "PUT", "PATCH", "DELETE", "HEAD", "OPTIONS"}

\* C11: Client::send maps every method of the closed set to the backend's
\* method of the same name and dispatches it; it reaches the fatal
\* 'unsupported method' condition only for a method outside the set, so an
\* update (PATCH) is dispatched by every backend.
C11_ClosedSetDispatched ==
    /\ pc = "panic_unsupported_method" => req.method \notin ClosedMethods
    /\ (sends = 1 /\ req.method \in ClosedMethods) => wire.method = req.method

\* C12: the payload of the outgoing backend request is the JSON encoding of
\* the body when the body is Some(v), and no payload at all when it is None,
\* on both backends.
C12_PayloadFollowsBody ==
    wire # NoWire => wire.payload = req.body

\* The host written in a URL string "scheme://host...": the lexemes after
\* the "//" up to the next "/" or "?".
GivenHost(str) ==
    LET rest == SubSeq(str, 5, Len(str))
        e == Find(rest, {Slash, QMark})
    IN IF e = 0 THEN rest ELSE SubSeq(rest, 1, e - 1)

\* C14: after a successful new or auth, whatever at, add_param and request
\* operations follow, the endpoint's URL has the scheme https and the host
\* given at construction, and so has the URL of every request built from it.
C14_HttpsAndHostKept ==
    /\ fb.live =>
          /\ fb.uri.scheme = "https"
          /\ fb.uri.host = GivenHost(ctor.arg)
    /\ req # NoRequest =>
          SubSeq(req.uri, 1, 4 + Len(GivenHost(ctor.arg)))
              = <<"https", Colon, Slash, Slash>> \o GivenHost(ctor.arg)

C14_Witness ==
    /\ ctor.fn = "auth"
    /\ ctor.arg = HostOnly \o <<Slash, "r", Json, Slash, "s">>
    /\ Len(navs) = 2
    /\ Len(added) = 2
    /\ pc = "await"
    /\ fb.uri.scheme = "https"
    /\ fb.uri.host = <<"h">>
    /\ SubSeq(req.uri, 1, 5) = HostOnly

\* The query pairs of a URL string as the server reads them.
SentPairs(str) == QueryPairs(UrlParse(str).url)

\* A step of at() leaves the query pairs as they were, a step of add_param
\* the path, and any step of a request the whole URL.
C15_FrameStep ==
    /\ (fb.live /\ Len(navs') > Len(navs)) =>
          QueryPairs(fb'.uri) = QueryPairs(fb.uri)
    /\ (fb.live /\ Len(added') > Len(added)) => fb'.uri.path = fb.uri.path
    /\ (fb.live /\ navs' = navs /\ added' = added) => fb'.uri = fb.uri

\* C15: at() leaves the query pairs unchanged in content and order,
\* add_param leaves the path unchanged and the request operations leave the
\* whole URL unchanged; hence the pair (auth, k) of auth(u, k) is the first
\* query pair of the URL of any later request.
C15_AuthPairStaysFirst ==
    [][ /\ C15_FrameStep
        /\ (ctor'.fn = "auth" /\ req' # NoRequest) =>
              /\ SentPairs(req'.uri) # <<>>
              /\ SentPairs(req'.uri)[1] = <<AUTH, ctor'.key>> ]_vars

\* The handle operation a step performs, <<>> if it performs none.
HandleOp == IF Len(hops') > Len(hops) THEN hops'[Len(hops')] ELSE <<>>

\* C13: a handle derived by with_params or with_queries refers to the same
\* Firebase, and so the same client, as its source and starts from a copy
\* of the source's URL; a later at or parameter call on a handle changes
\* only that handle's URL and leaves the Firebase's URL and client and the
\* other handle as they were; finish returns that same Firebase; a request
\* on a handle goes to the Firebase's client.
C13_HandlesShareFirebase ==
    [][ /\ wp'.live => wp'.firebase = FbAddr
        /\ wq'.live => wq'.firebase = FbAddr
        /\ HandleOp # <<>> => fb' = fb
        /\ HandleOp = <<"with_params", "fb">> =>
              (wp'.uri = fb.uri /\ wq' = wq)
        /\ HandleOp = <<"with_queries", "fb">> =>
              (wq'.uri = fb.uri /\ wp' = wp)
        /\ HandleOp = <<"with_params", "wq">> =>
              (wp'.uri = wq.uri /\ wp'.firebase = wq.firebase /\ wq' = wq)
        /\ HandleOp = <<"with_queries", "wp">> =>
              (wq'.uri = wp.uri /\ wq'.firebase = wp.firebase /\ wp' = wp)
        /\ HandleOp = <<"at", "wq">> =>
              (wq'.firebase = wq.firebase /\ wp' = wp)
        /\ HandleOp = <<"add_param", "wp">> =>
              (wp'.firebase = wp.firebase /\ wq' = wq)
        /\ HandleOp = <<"finish", "wp">> =>
              (finished' = FbAddr /\ wq' = wq)
        /\ HandleOp = <<"finish", "wq">> =>
              (finished' = FbAddr /\ wp' = wp)
        /\ (sender' # "" /\ fb'.live) => sender' = fb'.client ]_vars

C13_Witness ==
    /\ hops = << <<"with_queries", "fb">>, <<"at", "wq">>,
                 <<"with_params", "wq">> >>
    /\ fb.uri.path = <<Slash>>
    /\ wq.uri.path = <<Slash, "a", Json>>
    /\ wp.uri = wq.uri
    /\ wp.firebase = FbAddr
    /\ pc = "await"
    /\ req.uri = UrlToString(wp.uri)
    /\ sender = fb.client

====
